---- MODULE Spec2Model ----
(***************************************************************************)
(* Model of src/parsing.js (solvis): the call-graph pipeline of            *)
(* exports.parsing.  For every entry file profileData collects the ignore  *)
(* list, the contract names and the variable-type registry, processData    *)
(* extracts the contract universe of the file's import closure, and        *)
(* renameToSymLinks rewrites every recorded call with findAndRenameCall.   *)
(*                                                                         *)
(* Encoding of JavaScript values:                                          *)
(*  - names, paths and type names are strings; the value undefined, where  *)
(*    a name is expected, is the string "undefined" (what a template       *)
(*    literal prints for it);                                              *)
(*  - an AST node is a record; a property the node does not own is a field *)
(*    the record does not have (Prop);                                     *)
(*  - a string built with `a:b:c` templates (functionDefinition, and the   *)
(*    name of a call, which renameToSymLinks overwrites with one) is the   *)
(*    sequence <<a, b, c>> of its ':'-separated segments: the raw name of  *)
(*    a call is the one segment <<callee>>, and the empty sequence stands  *)
(*    for undefined where such a string is expected;                       *)
(*  - an array is a sequence, a Map a sequence of [key, value] entries in  *)
(*    insertion order;                                                     *)
(*  - a call that may throw yields a completion record with field threw.   *)
(***************************************************************************)
EXTENDS Integers, Sequences, FiniteSets, TLC

VARIABLES
    sources,            \* the file system: path -> parsed file (never written)
    solidityFilesPath,  \* the argument of exports.parsing
    pc,                 \* position in exports.parsing
    fileIdx,            \* index of the entry file the forEach is at
    ignoresList,        \* ignoresList of the current entry file
    contractsList,      \* contractsList of the current entry file
    variableTypeMap,    \* the registry shared by all entry files
    contractsArray,     \* [file, contract] per entry file processed
    renamed,            \* number of calls renameToSymLinks has rewritten
    fsReads,            \* paths processData read for the last entry file
    error               \* the exception that ended the run, or "none"

vars == <<sources, solidityFilesPath, pc, fileIdx, ignoresList, contractsList,
          variableTypeMap, contractsArray, renamed, fsReads, error>>

----------------------------------------------------------------------------
(* Bounds *)

\* longest function body (number of statements) drawn in Init
MaxStatements == 2
\* frames of findAndRenameCall the JavaScript stack holds before RangeError
StackLimit == 6

----------------------------------------------------------------------------
(* JavaScript helpers *)

Undefined == "undefined"

Prop(node, key) == IF key \in DOMAIN node THEN node[key] ELSE Undefined

Includes(list, v) == \E i \in DOMAIN list : list[i] = v

\* the empty sequence: undefined where a functionDefinition string is expected
NoString == <<>>

Return(v) == [threw |-> "none", value |-> v]

Throw(e) == [threw |-> e, value |-> NoString]

RECURSIVE Concat(_)
Concat(lists) ==
    IF lists = <<>> THEN <<>> ELSE Head(lists) \o Concat(Tail(lists))

----------------------------------------------------------------------------
(* Strings that are searched or taken apart: file paths and the names      *)
(* looked up in them.  Chars spells a string; a name that is a single      *)
(* letter spells as itself.                                                *)

BaseNames == {"A", "B", "C"}

SolExt == <<".", "s", "o", "l">>

NodeModulesDir == <<"n", "o", "d", "e", "_", "m", "o", "d", "u", "l", "e", "s", "/">>

SolPath(b) == b \o ".sol"

Chars(s) ==
    IF \E b \in BaseNames : s = SolPath(b)
    THEN <<CHOOSE b \in BaseNames : s = SolPath(b)>> \o SolExt
    ELSE IF \E b \in BaseNames : s = "./" \o SolPath(b)
    THEN <<".", "/">> \o <<CHOOSE b \in BaseNames : s = "./" \o SolPath(b)>> \o SolExt
    ELSE IF \E b \in BaseNames : s = "node_modules/" \o SolPath(b)
    THEN NodeModulesDir
         \o <<CHOOSE b \in BaseNames : s = "node_modules/" \o SolPath(b)>> \o SolExt
    ELSE <<s>>

PathStrings ==
    UNION {{SolPath(b), "./" \o SolPath(b), "node_modules/" \o SolPath(b)} : b \in BaseNames}

StringOf(cs) == CHOOSE s \in PathStrings \cup BaseNames : Chars(s) = cs

\* String.prototype.indexOf(name) > -1
IndexOfFound(s, name) ==
    LET cs == Chars(s)
        ns == Chars(name)
    IN \E i \in 0..(Len(cs) - Len(ns)) :
         \A j \in 1..Len(ns) : cs[i + j] = ns[j]

LastIndexOf(cs, c) ==
    IF \E i \in DOMAIN cs : cs[i] = c
    THEN CHOOSE i \in DOMAIN cs : cs[i] = c /\ \A j \in DOMAIN cs : j > i => cs[j] # c
    ELSE 0

\* path.join(solidityFile, '../'): the directory of the file, "" for the cwd
DirChars(solidityFile) ==
    LET cs == Chars(solidityFile) IN SubSeq(cs, 1, LastIndexOf(cs, "/"))

\* path.join(dir, './X.sol') drops the './' segment
StripDotSlash(cs) ==
    IF Len(cs) >= 2 /\ cs[1] = "." /\ cs[2] = "/" THEN SubSeq(cs, 3, Len(cs)) ELSE cs

\* the nodePath of an ImportDirective
ImportPath(solidityFile, nodePath) ==
    IF Chars(nodePath)[1] = "."
    THEN StringOf(DirChars(solidityFile) \o StripDotSlash(Chars(nodePath)))
    ELSE StringOf(NodeModulesDir \o Chars(nodePath))

\* path.parse(p).name: the base name without directory and extension
PathParseName(p) ==
    LET cs == Chars(p)
        base == SubSeq(cs, LastIndexOf(cs, "/") + 1, Len(cs))
        dot == LastIndexOf(base, ".")
    IN StringOf(IF dot > 1 THEN SubSeq(base, 1, dot - 1) ELSE base)

----------------------------------------------------------------------------
(* AST nodes of solidity-parser-antlr, as the code reads them *)

Identifier(n) == [type |-> "Identifier", name |-> n]

MemberAccess(e, m) == [type |-> "MemberAccess", expression |-> e, memberName |-> m]

FunctionCall(e, as) == [type |-> "FunctionCall", expression |-> e, arguments |-> as]

IndexAccess(b, i) == [type |-> "IndexAccess", base |-> b, index |-> i]

NumberLiteral == [type |-> "NumberLiteral", number |-> "1"]

ElementaryTypeName(n) == [type |-> "ElementaryTypeName", name |-> n]

UserDefinedTypeName(p) == [type |-> "UserDefinedTypeName", namePath |-> p]

MappingType == [type |-> "Mapping"]

VariableDeclaration(n, t) == [type |-> "VariableDeclaration", name |-> n, typeName |-> t]

\* a function with a body; parameters are the parameters' typeName nodes
FunctionDefinition(n, ps, stmts) ==
    [type |-> "FunctionDefinition", name |-> n, isConstructor |-> FALSE,
     modifiers |-> <<>>, parameters |-> ps, body |-> [statements |-> stmts]]

\* a constructor with its modifier invocations (names)
ConstructorDefinition(mods) ==
    [type |-> "FunctionDefinition", name |-> "constructor", isConstructor |-> TRUE,
     modifiers |-> mods, parameters |-> <<>>, body |-> [statements |-> <<>>]]

\* a function without a body (fDef.body === null): the record has no body
FunctionDeclaration(n, ps) ==
    [type |-> "FunctionDefinition", name |-> n, isConstructor |-> FALSE,
     modifiers |-> <<>>, parameters |-> ps]

\* parser.visit: the nodes below (and including) an expression, in the
\* pre-order in which visit calls the handlers (own properties in order)
RECURSIVE VisitOrder(_)
VisitOrder(node) ==
    <<node>> \o
    (CASE node.type = "FunctionCall" ->
            VisitOrder(node.expression)
            \o Concat([i \in DOMAIN node.arguments |-> VisitOrder(node.arguments[i])])
       [] node.type = "MemberAccess" -> VisitOrder(node.expression)
       [] node.type = "IndexAccess" -> VisitOrder(node.base) \o VisitOrder(node.index)
       [] OTHER -> <<>>)

\* typeName.name, or typeName.namePath when name is undefined
TypeString(typeName) ==
    IF Prop(typeName, "name") = Undefined
    THEN Prop(typeName, "namePath")
    ELSE typeName.name

----------------------------------------------------------------------------
(* parserFunctionVisitor and its predicates *)

isKeywordCall(word) == word = "length"

isKeywordFunction(word) == word \in {"require", "revert", "assert"}

isCountableStatement(fLink, cList, iList) ==
    /\ ~isKeywordFunction(Prop(fLink.expression, "name"))
    /\ ~Includes(iList, Prop(fLink.expression, "name"))
    /\ ~Includes(cList, Prop(fLink.expression, "name"))
    /\ Prop(fLink.expression, "name") # Undefined

FunctionCallHandler(cList, iList, fDef, callMethods, functionCallNode) ==
    IF /\ fDef.name # Prop(functionCallNode.expression, "name")
       /\ Len(fDef.body.statements) > 1
       /\ isCountableStatement(functionCallNode, cList, iList)
    THEN Append(callMethods, [name |-> <<functionCallNode.expression.name>>,
                              args |-> functionCallNode.arguments])
    ELSE callMethods

MemberAccessHandler(cList, iList, fDef, callMethods, functionCallNode) ==
    IF /\ \/ functionCallNode.expression.type # "Identifier"
          \/ Includes(cList, Prop(functionCallNode.expression, "name"))
          \/ Prop(functionCallNode.expression, "name") = "super"
       /\ functionCallNode.expression.type # "IndexAccess"
    THEN IF isKeywordCall(functionCallNode.memberName)
         THEN callMethods
         ELSE IF "arguments" \in DOMAIN functionCallNode.expression
         THEN Append(callMethods, [name |-> <<functionCallNode.memberName>>,
                                   args |-> functionCallNode.expression.arguments])
         ELSE Append(callMethods, [name |-> <<functionCallNode.memberName>>, args |-> <<>>])
    ELSE callMethods

\* the handlers applied to the nodes of the function in visit order
RECURSIVE VisitNodes(_, _, _, _, _)
VisitNodes(cList, iList, fDef, callMethods, nodes) ==
    IF nodes = <<>> THEN callMethods
    ELSE LET node == Head(nodes)
             next == CASE node.type = "FunctionCall" ->
                             FunctionCallHandler(cList, iList, fDef, callMethods, node)
                        [] node.type = "MemberAccess" ->
                             MemberAccessHandler(cList, iList, fDef, callMethods, node)
                        [] OTHER -> callMethods
         IN VisitNodes(cList, iList, fDef, next, Tail(nodes))

\* parser.visit(fDef, parserFunctionVisitor(...)) for a function with a body
CallMethodsOf(cList, iList, fDef) ==
    IF "body" \in DOMAIN fDef
    THEN VisitNodes(cList, iList, fDef, <<>>,
             Concat([i \in DOMAIN fDef.body.statements |->
                        VisitOrder(fDef.body.statements[i])]))
    ELSE <<>>

----------------------------------------------------------------------------
(* A parsed file: one contract per file.  imports holds the ImportDirective  *)
(* paths as written, baseNames the InheritanceSpecifier names, functions the *)
(* FunctionDefinition nodes, events, structs and variables the declarations, *)
(* each list in source order.                                                *)

SourceFile(name, imps, bases, funs, evs, sts, vs) ==
    [contractName |-> name, imports |-> imps, baseNames |-> bases,
     functions |-> funs, events |-> evs, structs |-> sts, variables |-> vs]

\* Map.prototype.set: a new key is appended, a known key keeps its place
MapSet(map, k, v) ==
    IF \E i \in DOMAIN map : map[i].key = k
    THEN [i \in DOMAIN map |-> IF map[i].key = k THEN [key |-> k, value |-> v] ELSE map[i]]
    ELSE Append(map, [key |-> k, value |-> v])

RECURSIVE MapSetAll(_, _)
MapSetAll(map, decls) ==
    IF decls = <<>> THEN map
    ELSE MapSetAll(MapSet(map, Head(decls).name, Head(decls)), Tail(decls))

\* fs.readFileSync(solidityFile): the exception it throws, or "none"
ReadFile(solidityFile) ==
    IF solidityFile = Undefined THEN "TypeError"
    ELSE IF solidityFile \notin DOMAIN sources THEN "ENOENT"
    ELSE "none"

\* the importList of a file: every ImportDirective path, resolved
ImportListOf(solidityFile) ==
    [i \in DOMAIN sources[solidityFile].imports |->
        ImportPath(solidityFile, sources[solidityFile].imports[i])]

----------------------------------------------------------------------------
(* profileData *)

RECURSIVE profileData(_, _)
RECURSIVE ProfileImports(_, _)

\* the ImportDirective handler over the import paths left to visit
ProfileImports(paths, st) ==
    IF paths = <<>> \/ st.threw # "none" THEN st
    ELSE IF Includes(st.importVisited, Head(paths))
    THEN ProfileImports(Tail(paths), st)
    ELSE ProfileImports(Tail(paths),
             profileData(Head(paths),
                 [st EXCEPT !.importVisited = Append(@, Head(paths))]))

\* st holds importVisited, ignoresList, contractsList and variableType, the
\* four collections profileData changes in place
profileData(solidityFile, st) ==
    IF ReadFile(solidityFile) # "none"
    THEN [st EXCEPT !.threw = ReadFile(solidityFile)]
    ELSE LET ast == sources[solidityFile]
             imported == ProfileImports(ImportListOf(solidityFile), st)
         IN IF imported.threw # "none" THEN imported
            ELSE [imported EXCEPT
                    !.ignoresList = @ \o ast.events \o ast.structs,
                    !.contractsList = Append(@, ast.contractName),
                    !.variableType =
                        MapSet(@, ast.contractName, MapSetAll(<<>>, ast.variables))]

----------------------------------------------------------------------------
(* processData *)

\* importList.filter(imp => imp.indexOf(name) > -1)[0]
FirstImportWith(importList, name) ==
    IF \E i \in DOMAIN importList : IndexOfFound(importList[i], name)
    THEN importList[CHOOSE i \in DOMAIN importList :
                      /\ IndexOfFound(importList[i], name)
                      /\ \A j \in 1..(i - 1) : ~IndexOfFound(importList[j], name)]
    ELSE Undefined

\* `${contractName}:${fDef.name}` followed by one segment per parameter
FunctionDefinitionString(contractName, fDef) ==
    <<contractName, fDef.name>>
    \o [i \in DOMAIN fDef.parameters |-> TypeString(fDef.parameters[i])]

\* the methodCalls entry of a function that is not a constructor
MethodCallsEntry(contractName, cList, iList, fDef) ==
    [functionName |-> fDef.name,
     functionDefinition |-> FunctionDefinitionString(contractName, fDef),
     callMethods |-> CallMethodsOf(cList, iList, fDef)]

\* the paths the three scans of processData try to visit, in order: the
\* modifiers of each constructor, the inheritance specifiers, the imports
NodePathsOf(solidityFile) ==
    LET ast == sources[solidityFile]
        importList == ImportListOf(solidityFile)
    IN Concat([i \in DOMAIN ast.functions |->
                  IF ast.functions[i].isConstructor
                  THEN [m \in DOMAIN ast.functions[i].modifiers |->
                           FirstImportWith(importList, ast.functions[i].modifiers[m])]
                  ELSE <<>>])
       \o [b \in DOMAIN ast.baseNames |-> FirstImportWith(importList, ast.baseNames[b])]
       \o importList

RECURSIVE processData(_, _, _, _)
RECURSIVE VisitNodePaths(_, _, _, _)

\* if (!importVisited.includes(nodePath)) { push; processData; push results }
VisitNodePaths(paths, st, iList, cList) ==
    IF paths = <<>> \/ st.threw # "none" THEN st
    ELSE IF Includes(st.importVisited, Head(paths))
    THEN VisitNodePaths(Tail(paths), st, iList, cList)
    ELSE LET r == processData(Head(paths), Append(st.importVisited, Head(paths)),
                              iList, cList)
         IN VisitNodePaths(Tail(paths),
                [threw |-> r.threw,
                 importVisited |-> r.importVisited,
                 processed |-> st.processed \o r.processed,
                 reads |-> st.reads \o r.reads],
                iList, cList)

processData(solidityFile, importVisited, iList, cList) ==
    IF ReadFile(solidityFile) # "none"
    THEN [threw |-> ReadFile(solidityFile), importVisited |-> importVisited,
          processed |-> <<>>, reads |-> <<solidityFile>>]
    ELSE LET ast == sources[solidityFile]
             funs == SelectSeq(ast.functions, LAMBDA f : ~f.isConstructor)
             methodCalls == [i \in DOMAIN funs |->
                                MethodCallsEntry(ast.contractName, cList, iList, funs[i])]
             st == VisitNodePaths(NodePathsOf(solidityFile),
                       [threw |-> "none", importVisited |-> importVisited,
                        processed |-> <<>>, reads |-> <<solidityFile>>],
                       iList, cList)
         IN IF st.threw # "none" THEN st
            ELSE [st EXCEPT !.processed =
                     Append(@, [contractName |-> ast.contractName,
                                extendsContracts |-> ast.baseNames,
                                importList |-> ImportListOf(solidityFile),
                                methodCalls |-> methodCalls])]

----------------------------------------------------------------------------
(* findAndRenameCall *)

\* the entries of every Map of the registry, in forEach order
RegistryEntries(variableType) ==
    Concat([i \in DOMAIN variableType |-> variableType[i].value])

\* ArgTypeScan without the test argType === undefined: the last entry named
\* like the argument wins
RECURSIVE ArgTypeScanLastWins(_, _, _)
ArgTypeScanLastWins(entries, name, argType) ==
    IF entries = <<>> THEN argType
    ELSE ArgTypeScanLastWins(Tail(entries), name,
             IF Head(entries).key = name
             THEN TypeString(Head(entries).value.typeName)
             ELSE argType)

\* the nested forEach of the Identifier branch: argType is assigned at an
\* entry named like the argument as long as it is still undefined
RECURSIVE ArgTypeScan(_, _, _)
ArgTypeScan(entries, name, argType) ==
    IF entries = <<>> THEN argType
    ELSE ArgTypeScan(Tail(entries), name,
             IF Head(entries).key = name /\ argType = Undefined
             THEN TypeString(Head(entries).value.typeName)
             ELSE argType)

ArgTypeOf(variableType, name) ==
    ArgTypeScan(RegistryEntries(variableType), name, Undefined)

\* the segments one argument appends to functionDefinition
ArgSegments(variableType, p) ==
    IF p.type = "Identifier" THEN <<ArgTypeOf(variableType, p.name)>>
    ELSE IF p.type = "MemberAccess"
    THEN IF p.memberName = "sender" THEN <<"address">>
         ELSE IF p.memberName = "value" THEN <<"uint256">>
         ELSE <<>>
    ELSE <<>>

\* call.name of a call not yet renamed: the callee as written
Callee(call) == call.name[1]

\* the functionDefinition built when the contract itself has the method
LocalDefinition(contractInfo, variableType, call) ==
    <<contractInfo.contractName, Callee(call)>>
    \o Concat([i \in DOMAIN call.args |-> ArgSegments(variableType, call.args[i])])

\* contractInfo.methodCalls.find(method => method.functionName === call.name)
HasMethod(contractInfo, name) ==
    \E m \in DOMAIN contractInfo.methodCalls :
        contractInfo.methodCalls[m].functionName = name

\* contracts.find(c => c.contractName === name): its index, 0 for undefined
FindContract(contracts, name) ==
    IF \E i \in DOMAIN contracts : contracts[i].contractName = name
    THEN CHOOSE i \in DOMAIN contracts :
            /\ contracts[i].contractName = name
            /\ \A j \in 1..(i - 1) : contracts[j].contractName # name
    ELSE 0

\* KeepResult that keeps the first result found
KeepFirstResult(foundResult, result) ==
    IF foundResult # NoString THEN foundResult ELSE result

\* if (result !== undefined) { foundResult = result; }
KeepResult(foundResult, result) ==
    IF result # NoString THEN result ELSE foundResult

\* the contract names the import search visits: path.parse(importContract).name
\* of every import whose name is not in extendsContracts
ImportNames(contractInfo) ==
    LET names == [i \in DOMAIN contractInfo.importList |->
                     PathParseName(contractInfo.importList[i])]
    IN SelectSeq(names, LAMBDA n : ~Includes(contractInfo.extendsContracts, n))

RECURSIVE findAndRenameCall(_, _, _, _, _)
RECURSIVE SearchContracts(_, _, _, _, _, _)

\* one forEach of the ancestor or import search; foundResult is a completion
SearchContracts(contracts, names, variableType, call, depth, foundResult) ==
    IF names = <<>> \/ foundResult.threw # "none" THEN foundResult
    ELSE LET r == findAndRenameCall(contracts, FindContract(contracts, Head(names)),
                                    variableType, call, depth + 1)
         IN SearchContracts(contracts, Tail(names), variableType, call, depth,
                IF r.threw # "none" THEN r
                ELSE Return(KeepResult(foundResult.value, r.value)))

\* findAndRenameCall that looks in the parent contracts before its own methods
ParentsBeforeOwnMethods(contracts, contractInfo, variableType, call, depth) ==
    IF depth > StackLimit THEN Throw("RangeError")
    ELSE IF contractInfo = 0 THEN Throw("TypeError")
    ELSE LET parents == SearchContracts(contracts,
                            contracts[contractInfo].extendsContracts,
                            variableType, call, depth, Return(NoString))
         IN IF parents.threw # "none" \/ parents.value # NoString THEN parents
            ELSE IF HasMethod(contracts[contractInfo], Callee(call))
            THEN Return(LocalDefinition(contracts[contractInfo], variableType, call))
            ELSE SearchContracts(contracts, ImportNames(contracts[contractInfo]),
                                 variableType, call, depth, Return(NoString))

\* contractInfo is the index of the record in contracts, 0 when the caller
\* found none (undefined); depth counts the frames on the stack.  contracts is
\* always the array of a universe, so the guard of line 255 never returns.
findAndRenameCall(contracts, contractInfo, variableType, call, depth) ==
    IF depth > StackLimit THEN Throw("RangeError")
    ELSE IF contractInfo = 0 THEN Throw("TypeError")
    ELSE IF HasMethod(contracts[contractInfo], Callee(call))
    THEN Return(LocalDefinition(contracts[contractInfo], variableType, call))
    ELSE LET parents == SearchContracts(contracts,
                            contracts[contractInfo].extendsContracts,
                            variableType, call, depth, Return(NoString))
         IN IF parents.threw = "none" /\ parents.value = NoString
            THEN SearchContracts(contracts, ImportNames(contracts[contractInfo]),
                                 variableType, call, depth, Return(NoString))
            ELSE parents

----------------------------------------------------------------------------
(* renameToSymLinks: the calls in the order of its nested loops *)

CallPositions(allContractsData) ==
    Concat([u \in DOMAIN allContractsData |->
      Concat([c \in DOMAIN allContractsData[u].contract |->
        Concat([m \in DOMAIN allContractsData[u].contract[c].methodCalls |->
          [k \in DOMAIN allContractsData[u].contract[c].methodCalls[m].callMethods |->
              [u |-> u, c |-> c, m |-> m, k |-> k]]])])])

CallAt(allContractsData, pos) ==
    allContractsData[pos.u].contract[pos.c].methodCalls[pos.m].callMethods[pos.k]

\* call.name = findAndRenameCall(contract.contract, contractInfo, contractInfo, ...)
RenameResult(allContractsData, variableType, pos) ==
    findAndRenameCall(allContractsData[pos.u].contract, pos.c, variableType,
                      CallAt(allContractsData, pos), 1)

----------------------------------------------------------------------------
(* The projects exports.parsing is run on.  All files live in the working  *)
(* directory; A.sol, B.sol and C.sol exist.                                 *)

Msg(member) == MemberAccess(Identifier("msg"), member)

Call(name, args) == FunctionCall(Identifier(name), args)

MemberCall(object, member, args) == FunctionCall(MemberAccess(object, member), args)

\* the expression statements a function body is drawn from
Statements ==
    { Call("g", <<>>),                                   \* g();
      Call("h", <<>>),                                   \* h();
      Call("u", <<>>),                                   \* u();  defined nowhere
      Call("E", <<Identifier("x")>>),                    \* emit E(x);
      Call("require", <<Identifier("x")>>),              \* require(x);
      Call("B", <<Identifier("x")>>),                    \* B(x);  a cast
      Call("g", <<Msg("value")>>),                       \* g(msg.value);
      Call("g", <<Msg("sender")>>),                      \* g(msg.sender);
      Call("g", <<NumberLiteral, Identifier("x")>>),     \* g(1, x);
      MemberCall(Identifier("x"), "g", <<Msg("value")>>),   \* x.g(msg.value);
      MemberCall(Identifier("B"), "g", <<Msg("value")>>),   \* B.g(msg.value);
      MemberCall(Identifier("super"), "g", <<Msg("sender")>>), \* super.g(msg.sender);
      MemberCall(Identifier("B"), "S", <<Identifier("x")>>),   \* B.S(x);  a struct
      MemberCall(Call("g", <<Identifier("x")>>), "E", <<>>),   \* g(x).E();
      MemberCall(IndexAccess(Identifier("a"), NumberLiteral), "g", <<>>), \* a[1].g();
      MemberAccess(FunctionCall([type |-> "ElementaryTypeNameExpression"],
                                <<Identifier("x")>>), "length") }  \* bytes(x).length;

Bodies ==
    UNION {[1..n -> Statements] : n \in 1..MaxStatements}

RelativeImports(names) == [i \in DOMAIN names |-> "./" \o SolPath(names[i])]

Reverse(s) == [i \in DOMAIN s |-> s[Len(s) + 1 - i]]

\* the lists of distinct names, of at most max elements, drawn from a set
ListsOf(names, max) ==
    {<<>>} \cup (IF max >= 1 THEN {<<a>> : a \in names} ELSE {})
           \cup (IF max >= 2 THEN {<<a, b>> : a \in names, b \in names} \ {<<a, a>> : a \in names}
                 ELSE {})

Uint256 == ElementaryTypeName("uint256")

Address == ElementaryTypeName("address")

\* Child A.sol (contract A is B) with one function h, Base B.sol with g, f,
\* event E and struct S: the body of h varies
StatementProjects ==
    { [entries |-> <<"A.sol">>,
       files |->
         [p \in {"A.sol", "B.sol", "C.sol"} |->
            CASE p = "A.sol" ->
                   SourceFile("A", <<"./B.sol">>, <<"B">>,
                       <<FunctionDefinition("h", <<>>, body)>>,
                       <<>>, <<>>, <<VariableDeclaration("x", Address)>>)
              [] p = "B.sol" ->
                   SourceFile("B", <<>>, <<>>,
                       <<FunctionDefinition("g", <<Uint256>>, <<>>),
                         FunctionDeclaration("f", <<Address>>)>>,
                       <<"E">>, <<"S">>, <<>>)
              [] OTHER -> SourceFile("C", <<>>, <<>>, <<>>, <<>>, <<>>, <<>>)]]
      : body \in Bodies }

\* the caller every graph project gives contract A
Caller == FunctionDefinition("h", <<>>, <<Call("f", <<>>), Call("u", <<>>)>>)

DefinesF == <<FunctionDefinition("f", <<>>, <<>>)>>

\* three files and their import lists; A extends nothing, its imports in
\* order, its imports in reverse, or the contract C; B extends nothing or its
\* imports; the contract of C.sol is named C or D; A calls f and u and may
\* define f, B may define f, C defines f
GraphProjects ==
    { [entries |-> <<"A.sol">>,
       files |->
         [p \in {"A.sol", "B.sol", "C.sol"} |->
            CASE p = "A.sol" ->
                   SourceFile("A", RelativeImports(ia),
                       CASE ba = "none" -> <<>>
                         [] ba = "imports" -> ia
                         [] ba = "reverse" -> Reverse(ia)
                         [] OTHER -> <<"C">>,
                       (IF fa THEN DefinesF ELSE <<>>) \o <<Caller>>, <<>>, <<>>, <<>>)
              [] p = "B.sol" ->
                   SourceFile("B", RelativeImports(ib), IF eb THEN ib ELSE <<>>,
                       IF fb THEN DefinesF ELSE <<>>, <<>>, <<>>, <<>>)
              [] OTHER ->
                   SourceFile(nc, RelativeImports(ic), <<>>, DefinesF, <<>>, <<>>, <<>>)]]
      : ia \in ListsOf({"B", "C"}, 2), ib \in ListsOf({"A", "C"}, 2),
        ic \in ListsOf({"A", "B"}, 1),
        ba \in {"none", "imports", "reverse", "C"}, eb \in BOOLEAN,
        fa \in BOOLEAN, fb \in BOOLEAN, nc \in {"C", "D"} }

\* the declared types of a variable x an optional declaration may have
TypesOfX == {Uint256, Address, UserDefinedTypeName("T"), MappingType}

\* A.sol calls f(x) and f(y) and declares x as address; the overloads
\* f(uint256) and f(address) are in A or in B; A imports B or not, relatively
\* or from node_modules, and has no constructor or one with a modifier;
\* B.sol declares variables of its own, and the entry files vary
RegistryProjects ==
    { [entries |-> es,
       files |->
         [p \in {"A.sol", "B.sol", "C.sol"} |->
            CASE p = "A.sol" ->
                   SourceFile("A", imp, IF imp = <<"./B.sol">> THEN <<"B">> ELSE <<>>,
                       ctor \o
                       (IF inA THEN <<FunctionDefinition("f", <<Uint256>>, <<>>),
                                      FunctionDefinition("f", <<Address>>, <<>>)>>
                        ELSE <<>>)
                       \o <<FunctionDefinition("h", <<>>,
                               <<Call("f", <<Identifier("x")>>),
                                 Call("f", <<Identifier("y")>>)>>)>>,
                       <<>>, <<>>, va \o <<VariableDeclaration("x", Address)>>)
              [] p = "B.sol" ->
                   SourceFile("B", <<>>, <<>>,
                       IF inA THEN <<>>
                       ELSE <<FunctionDefinition("f", <<Uint256>>, <<>>),
                              FunctionDefinition("f", <<Address>>, <<>>)>>,
                       <<>>, <<>>, vb)
              [] OTHER -> SourceFile("C", <<>>, <<>>, <<>>, <<>>, <<>>, <<>>)]]
      : es \in {<<"A.sol">>, <<"B.sol", "A.sol">>, <<"A.sol", "B.sol">>},
        imp \in {<<>>, <<"./B.sol">>, <<"B.sol">>},
        inA \in BOOLEAN,
        ctor \in {<<>>, <<ConstructorDefinition(<<"B">>)>>,
                  <<ConstructorDefinition(<<"onlyOwner">>)>>},
        va \in {<<>>} \cup {<<VariableDeclaration("x", Uint256)>>,
                            <<VariableDeclaration("y", Uint256)>>},
        vb \in {<<>>} \cup {<<VariableDeclaration("x", t)>> : t \in TypesOfX} }

Projects == StatementProjects \cup GraphProjects \cup RegistryProjects

----------------------------------------------------------------------------
(* exports.parsing *)

Init ==
    /\ \E project \in Projects :
          /\ sources = project.files
          /\ solidityFilesPath = project.entries
    /\ pc = "profile"
    /\ fileIdx = 1
    /\ ignoresList = <<>>
    /\ contractsList = <<>>
    /\ variableTypeMap = <<>>
    /\ contractsArray = <<>>
    /\ renamed = 0
    /\ fsReads = <<>>
    /\ error = "none"

\* profileData(file, [], ignoresList, contractsList, variableTypeMap) with
\* fresh lists
Profiled ==
    profileData(solidityFilesPath[fileIdx],
        [threw |-> "none", importVisited |-> <<>>, ignoresList |-> <<>>,
         contractsList |-> <<>>, variableType |-> variableTypeMap])

\* processData(file, [], ignoresList, contractsList)
Processed ==
    processData(solidityFilesPath[fileIdx], <<>>, ignoresList, contractsList)

ProfileFile ==
    /\ pc = "profile"
    /\ Profiled.threw = "none"
    /\ ignoresList' = Profiled.ignoresList
    /\ contractsList' = Profiled.contractsList
    /\ variableTypeMap' = Profiled.variableType
    /\ pc' = "process"
    /\ UNCHANGED <<sources, solidityFilesPath, fileIdx, contractsArray, renamed,
                   fsReads, error>>

ProfileFileThrows ==
    /\ pc = "profile"
    /\ Profiled.threw # "none"
    /\ pc' = "failed"
    /\ error' = Profiled.threw
    /\ UNCHANGED <<sources, solidityFilesPath, fileIdx, ignoresList, contractsList,
                   variableTypeMap, contractsArray, renamed, fsReads>>

ProcessFile ==
    /\ pc = "process"
    /\ Processed.threw = "none"
    /\ contractsArray' = Append(contractsArray,
           [file |-> solidityFilesPath[fileIdx], contract |-> Processed.processed])
    /\ fsReads' = Processed.reads
    /\ fileIdx' = fileIdx + 1
    /\ pc' = IF fileIdx < Len(solidityFilesPath) THEN "profile" ELSE "rename"
    /\ UNCHANGED <<sources, solidityFilesPath, ignoresList, contractsList,
                   variableTypeMap, renamed, error>>

ProcessFileThrows ==
    /\ pc = "process"
    /\ Processed.threw # "none"
    /\ fsReads' = Processed.reads
    /\ pc' = "failed"
    /\ error' = Processed.threw
    /\ UNCHANGED <<sources, solidityFilesPath, fileIdx, ignoresList, contractsList,
                   variableTypeMap, contractsArray, renamed>>

\* the call the loops of renameToSymLinks are at
NextCall == CallPositions(contractsArray)[renamed + 1]

RenameCall ==
    /\ pc = "rename"
    /\ renamed < Len(CallPositions(contractsArray))
    /\ RenameResult(contractsArray, variableTypeMap, NextCall).threw = "none"
    /\ contractsArray' =
         [contractsArray EXCEPT
            ![NextCall.u].contract[NextCall.c].methodCalls[NextCall.m]
                .callMethods[NextCall.k].name =
                    RenameResult(contractsArray, variableTypeMap, NextCall).value]
    /\ renamed' = renamed + 1
    /\ UNCHANGED <<sources, solidityFilesPath, pc, fileIdx, ignoresList,
                   contractsList, variableTypeMap, fsReads, error>>

RenameCallThrows ==
    /\ pc = "rename"
    /\ renamed < Len(CallPositions(contractsArray))
    /\ RenameResult(contractsArray, variableTypeMap, NextCall).threw # "none"
    /\ pc' = "failed"
    /\ error' = RenameResult(contractsArray, variableTypeMap, NextCall).threw
    /\ UNCHANGED <<sources, solidityFilesPath, fileIdx, ignoresList, contractsList,
                   variableTypeMap, contractsArray, renamed, fsReads>>

\* renameToSymLinks returns allContractsData
RenameReturn ==
    /\ pc = "rename"
    /\ renamed = Len(CallPositions(contractsArray))
    /\ pc' = "transform"
    /\ UNCHANGED <<sources, solidityFilesPath, fileIdx, ignoresList, contractsList,
                   variableTypeMap, contractsArray, renamed, fsReads, error>>

\* the two graphic transforms read contractsArray and change nothing in it
Transform ==
    /\ pc = "transform"
    /\ pc' = "done"
    /\ UNCHANGED <<sources, solidityFilesPath, fileIdx, ignoresList, contractsList,
                   variableTypeMap, contractsArray, renamed, fsReads, error>>

Next ==
    \/ ProfileFile
    \/ ProfileFileThrows
    \/ ProcessFile
    \/ ProcessFileThrows
    \/ RenameCall
    \/ RenameCallThrows
    \/ RenameReturn
    \/ Transform

Spec == Init /\ [][Next]_vars

----------------------------------------------------------------------------
(* Vocabulary of the properties *)

NoDuplicates(list) ==
    \A i, j \in DOMAIN list : i # j => list[i] # list[j]

Last(list) == list[Len(list)]

\* the file that defines the contract of a record
SourceOf(contractName) ==
    sources[CHOOSE p \in DOMAIN sources : sources[p].contractName = contractName]

\* the FunctionDefinition behind methodCalls[m] of a record
FunctionOf(contractInfo, m) ==
    SelectSeq(SourceOf(contractInfo.contractName).functions,
              LAMBDA f : ~f.isConstructor)[m]

StatementsOf(fDef) ==
    IF "body" \in DOMAIN fDef THEN fDef.body.statements ELSE <<>>

\* every call list still holds the raw calls
AllRaw == renamed = 0

\* every call list holds resolved identifiers
Linked == pc \in {"transform", "done"}

\* entry file and some file it imports import each other
InTwoCycle(entry) ==
    \E i \in DOMAIN ImportListOf(entry) :
        LET other == ImportListOf(entry)[i]
        IN /\ other \in DOMAIN sources
           /\ Includes(ImportListOf(other), entry)

\* every ancestor name and import base name of the universe names a contract
\* of the universe
NamesMatch(contracts) ==
    \A c \in DOMAIN contracts :
        /\ \A i \in DOMAIN contracts[c].extendsContracts :
              FindContract(contracts, contracts[c].extendsContracts[i]) # 0
        /\ \A i \in DOMAIN contracts[c].importList :
              FindContract(contracts, PathParseName(contracts[c].importList[i])) # 0

\* no file of the project is reachable from itself through imports
RECURSIVE ImportsReach(_, _, _)
ImportsReach(from, to, steps) ==
    /\ steps > 0
    /\ from \in DOMAIN sources
    /\ \E i \in DOMAIN ImportListOf(from) :
          \/ ImportListOf(from)[i] = to
          \/ ImportsReach(ImportListOf(from)[i], to, steps - 1)

ImportsAcyclic ==
    \A p \in DOMAIN sources : ~ImportsReach(p, p, Cardinality(DOMAIN sources))

\* the statement calls name directly: name(args)
IsDirectCall(stmt, name) ==
    stmt.type = "FunctionCall" /\ Prop(stmt.expression, "name") = name

\* name occurs in the statement as a callee or as a member
Mentions(stmt, name) ==
    \E i \in DOMAIN VisitOrder(stmt) :
        LET node == VisitOrder(stmt)[i]
        IN \/ node.type = "FunctionCall" /\ Prop(node.expression, "name") = name
           \/ node.type = "MemberAccess" /\ node.memberName = name

\* the names the functions of the universe are called by
FunctionNames(contracts) ==
    UNION {{contracts[c].methodCalls[m].functionName :
               m \in DOMAIN contracts[c].methodCalls} : c \in DOMAIN contracts}

\* the events and structs declared by the files of the universe
IgnoredNames(contracts) ==
    UNION {{SourceOf(contracts[c].contractName).events[i] :
                i \in DOMAIN SourceOf(contracts[c].contractName).events}
           \cup {SourceOf(contracts[c].contractName).structs[i] :
                i \in DOMAIN SourceOf(contracts[c].contractName).structs}
           : c \in DOMAIN contracts}

\* renameToSymLinks is at a call: the universe, the record and the raw call
AtCall == pc = "rename" /\ renamed < Len(CallPositions(contractsArray))

CallUniverse == contractsArray[NextCall.u].contract

CallContract == CallUniverse[NextCall.c]

RawCall == CallAt(contractsArray, NextCall)

\* the step rewrote the call renameToSymLinks was at
Rewrote == pc' = "rename" /\ renamed' = renamed + 1

\* the identifier the step stored in the call
NewName == CallAt(contractsArray', NextCall).name

----------------------------------------------------------------------------
(* Properties *)

ContractNames(contracts) == [c \in DOMAIN contracts |-> contracts[c].contractName]

\* fsReads is the read log of the extraction that produced the last universe
ReadsOfLastUniverse ==
    /\ contractsArray # <<>>
    /\ fsReads # <<>>
    /\ fsReads[1] = Last(contractsArray).file

\* C1: when the entry file and a file it imports import each other, the
\* extraction started with an empty visited list returns a universe in which
\* no contract name appears twice, and reads no file more than once.
C1_CycleSafety ==
    /\ \A u \in DOMAIN contractsArray :
          InTwoCycle(contractsArray[u].file)
             => NoDuplicates(ContractNames(contractsArray[u].contract))
    /\ (ReadsOfLastUniverse /\ InTwoCycle(Last(contractsArray).file))
          => NoDuplicates(fsReads)

\* the number of entries of a list that satisfy a test
CountOf(list, Test(_)) == Cardinality({i \in DOMAIN list : Test(list[i])})

\* the contract imports the file of, and extends, a contract of the universe
\* that has a function called name
InheritsFunction(contracts, contractInfo, name) ==
    \E b \in DOMAIN contractInfo.extendsContracts :
        LET base == FindContract(contracts, contractInfo.extendsContracts[b])
        IN /\ base # 0
           /\ HasMethod(contracts[base], name)
           /\ \E i \in DOMAIN contractInfo.importList :
                 PathParseName(contractInfo.importList[i])
                    = contractInfo.extendsContracts[b]

\* the body calls g only in statements g();
CallsOnlyDirectly(fDef, g) ==
    /\ \E s \in DOMAIN StatementsOf(fDef) : StatementsOf(fDef)[s] = Call(g, <<>>)
    /\ \A s \in DOMAIN StatementsOf(fDef) :
          StatementsOf(fDef)[s] # Call(g, <<>>) => ~Mentions(StatementsOf(fDef)[s], g)

\* C2: when Child imports and extends Base, Base has a function g and Child
\* has none, then after linking the call list of a function h of Child holds,
\* for every statement g(); of its body (also when it is the only statement),
\* exactly one entry, resolved to Base:g.  (Stated for the bodies that call g
\* in no other way, so that the entries Base:g are those of the statements.)
C2_InheritedCallLinked ==
    Linked =>
      \A u \in DOMAIN contractsArray :
        \A c \in DOMAIN contractsArray[u].contract :
          LET contracts == contractsArray[u].contract
              child == contracts[c]
          IN \A m \in DOMAIN child.methodCalls :
               \A g \in FunctionNames(contracts) :
                 ( /\ ~HasMethod(child, g)
                   /\ Len(child.extendsContracts) = 1
                   /\ InheritsFunction(contracts, child, g)
                   /\ CallsOnlyDirectly(FunctionOf(child, m), g) )
                 => CountOf(child.methodCalls[m].callMethods,
                            LAMBDA call : call.name = <<child.extendsContracts[1], g>>)
                      = CountOf(StatementsOf(FunctionOf(child, m)),
                                LAMBDA stmt : stmt = Call(g, <<>>))

\* C3: in a universe whose ancestor and import names all name contracts of the
\* universe (cyclic import lists included), resolving a call whose callee no
\* contract of the universe defines returns the unresolved marker.
C3_ResolverTerminates ==
    ( /\ AtCall
      /\ NamesMatch(CallUniverse)
      /\ Callee(RawCall) \notin FunctionNames(CallUniverse) )
    => RenameResult(contractsArray, variableTypeMap, NextCall) = Return(NoString)

\* a resolved name: Contract:Function[:Type]* or the unresolved marker
IsResolvedName(contracts, name) ==
    \/ name = NoString
    \/ /\ Len(name) >= 2
       /\ Includes(ContractNames(contracts), name[1])
       /\ name[2] \in FunctionNames(contracts)

\* C4: when the extraction of every entry file succeeded, the resolution pass
\* raises nothing, also when an ancestor name or the base name of an import
\* path names no contract of the universe, and after linking every call holds
\* a canonical identifier or the unresolved marker.  (Universes without import
\* cycles: C3 is about the cyclic ones.)
C4_UnresolvedIsNotAnError ==
    ImportsAcyclic =>
      /\ (pc = "failed" => Len(contractsArray) < Len(solidityFilesPath))
      /\ Linked =>
           \A i \in DOMAIN CallPositions(contractsArray) :
              LET pos == CallPositions(contractsArray)[i]
              IN IsResolvedName(contractsArray[pos.u].contract,
                                CallAt(contractsArray, pos).name)

\* C5: no raw call list of an extracted universe holds an entry whose callee
\* is the name of an event or struct declared in the universe's files, whether
\* the call was recorded as callee(args) or as obj.member(args).
C5_IgnorePropagation ==
    AllRaw =>
      \A i \in DOMAIN CallPositions(contractsArray) :
         LET pos == CallPositions(contractsArray)[i]
         IN Callee(CallAt(contractsArray, pos))
               \notin IgnoredNames(contractsArray[pos.u].contract)

\* the callee of a call statement, direct or member-style
CalleeOf(stmt) ==
    IF stmt.type # "FunctionCall" THEN Undefined
    ELSE IF stmt.expression.type = "MemberAccess" THEN stmt.expression.memberName
    ELSE Prop(stmt.expression, "name")

\* the type segment of a msg.value or msg.sender argument
MsgSegment(arg) ==
    IF arg = Msg("value") THEN "uint256"
    ELSE IF arg = Msg("sender") THEN "address"
    ELSE Undefined

\* C6: a recorded call, direct f(.., msg.value) or member-style
\* x.f(.., msg.value), whose last argument is msg.value resolves to an
\* identifier ending in uint256, and one whose last argument is msg.sender to
\* one ending in address.  (Stated for the statements that alone in their
\* function mention the callee, so that the entries of that name are theirs.)
C6_MemberAccessArguments ==
    Linked =>
      \A u \in DOMAIN contractsArray :
        \A c \in DOMAIN contractsArray[u].contract :
          LET info == contractsArray[u].contract[c]
          IN \A m \in DOMAIN info.methodCalls :
               LET stmts == StatementsOf(FunctionOf(info, m))
               IN \A s \in DOMAIN stmts :
                    ( /\ stmts[s].type = "FunctionCall"
                      /\ stmts[s].arguments # <<>>
                      /\ MsgSegment(Last(stmts[s].arguments)) # Undefined
                      /\ \A t \in DOMAIN stmts :
                            t # s => ~Mentions(stmts[t], CalleeOf(stmts[s])) )
                    => \A k \in DOMAIN info.methodCalls[m].callMethods :
                         LET name == info.methodCalls[m].callMethods[k].name
                         IN (name # NoString /\ name[2] = CalleeOf(stmts[s]))
                              => Last(name) = MsgSegment(Last(stmts[s].arguments))

\* the direct call could be recorded: its callee is no assertion function, no
\* ignored name and no contract name
Countable(contracts, name) ==
    /\ name # Undefined
    /\ ~isKeywordFunction(name)
    /\ name \notin IgnoredNames(contracts)
    /\ ~Includes(ContractNames(contracts), name)

\* C10: a function whose single statement is a direct call to its own name has
\* an empty call list; a direct call to its own name in a body of two or more
\* statements is recorded; a direct call to another countable callee is
\* recorded whatever the number of statements.
C10_SelfCallGuard ==
    AllRaw =>
      \A u \in DOMAIN contractsArray :
        \A c \in DOMAIN contractsArray[u].contract :
          LET contracts == contractsArray[u].contract
              info == contracts[c]
          IN \A m \in DOMAIN info.methodCalls :
               LET fDef == FunctionOf(info, m)
                   stmts == StatementsOf(fDef)
                   calls == info.methodCalls[m].callMethods
               IN /\ (Len(stmts) = 1 /\ IsDirectCall(stmts[1], fDef.name))
                        => calls = <<>>
                  /\ \A s \in DOMAIN stmts :
                        ( /\ stmts[s].type = "FunctionCall"
                          /\ Countable(contracts, Prop(stmts[s].expression, "name"))
                          /\ (IsDirectCall(stmts[s], fDef.name) => Len(stmts) >= 2) )
                        => \E k \in DOMAIN calls :
                              /\ Callee(calls[k]) = stmts[s].expression.name
                              /\ calls[k].args = stmts[s].arguments

\* the entry of the registry for a contract name: its index, 0 if none
RegistryIndex(contractName) ==
    IF \E i \in DOMAIN variableTypeMap : variableTypeMap[i].key = contractName
    THEN CHOOSE i \in DOMAIN variableTypeMap : variableTypeMap[i].key = contractName
    ELSE 0

\* entry i of the registry declares the variable, with a type that has a
\* name or a name path
DeclaresTyped(i, variable) ==
    \E e \in DOMAIN variableTypeMap[i].value :
        /\ variableTypeMap[i].value[e].key = variable
        /\ TypeString(variableTypeMap[i].value[e].value.typeName) # Undefined

\* entry i of the registry declares the variable with the type
DeclaresAs(i, variable, type) ==
    \E e \in DOMAIN variableTypeMap[i].value :
        /\ variableTypeMap[i].value[e].key = variable
        /\ TypeString(variableTypeMap[i].value[e].value.typeName) = type

\* the record has the overloads name(uint256) and name(address)
HasOverloads(contractInfo, name) ==
    \A type \in {"uint256", "address"} :
        \E m \in DOMAIN contractInfo.methodCalls :
            contractInfo.methodCalls[m].functionDefinition
               = <<contractInfo.contractName, name, type>>

\* the overloads are in the calling contract or, when it has no method of that
\* name, in its only base contract
OverloadsReachable ==
    \/ HasOverloads(CallContract, Callee(RawCall))
    \/ /\ ~HasMethod(CallContract, Callee(RawCall))
       /\ Len(CallContract.extendsContracts) = 1
       /\ FindContract(CallUniverse, CallContract.extendsContracts[1]) # 0
       /\ HasOverloads(
             CallUniverse[FindContract(CallUniverse, CallContract.extendsContracts[1])],
             Callee(RawCall))

\* renameToSymLinks is at a call f(x) with reachable overloads of f, whose
\* calling contract declares x as address
AtOverloadedCall ==
    /\ AtCall
    /\ Len(RawCall.args) = 1
    /\ RawCall.args[1].type = "Identifier"
    /\ OverloadsReachable
    /\ RegistryIndex(CallContract.contractName) # 0
    /\ DeclaresAs(RegistryIndex(CallContract.contractName), RawCall.args[1].name,
                  "address")

\* C7 as claimed: with overloads f(uint256) and f(address) reachable and x
\* declared address by the calling contract, f(x) resolves to an identifier
\* ending in :address, whatever else the registry holds.
C7_AnyRegistry ==
    [][AtOverloadedCall => (Rewrote /\ Last(NewName) = "address")]_vars

\* C7, amended: ... provided no contract registered in the variable-type
\* registry before the calling contract declares a variable named x with a
\* type that has a name or a name path.
C7_FirstDeclarationWins ==
    [][ ( /\ AtOverloadedCall
          /\ \A i \in 1..(RegistryIndex(CallContract.contractName) - 1) :
                ~DeclaresTyped(i, RawCall.args[1].name) )
        => (Rewrote /\ Last(NewName) = "address") ]_vars

\* a contract that declares x as address had f(x) resolved to ...:f:address
\* although a contract registered after it declares x with another type
C7_Witness ==
    /\ Linked
    /\ \E u \in DOMAIN contractsArray :
         \E c \in DOMAIN contractsArray[u].contract :
           LET info == contractsArray[u].contract[c]
               i == RegistryIndex(info.contractName)
           IN /\ i # 0
              /\ DeclaresAs(i, "x", "address")
              /\ \E j \in (i + 1)..Len(variableTypeMap) :
                    DeclaresTyped(j, "x") /\ ~DeclaresAs(j, "x", "address")
              /\ \E m \in DOMAIN info.methodCalls :
                   \E k \in DOMAIN info.methodCalls[m].callMethods :
                      /\ info.methodCalls[m].callMethods[k].args = <<Identifier("x")>>
                      /\ info.methodCalls[m].callMethods[k].name
                            = <<info.contractName, "f", "address">>

\* what findAndRenameCall returns for the call in ancestor i of the contract
AncestorResult(i) ==
    findAndRenameCall(CallUniverse,
        FindContract(CallUniverse, CallContract.extendsContracts[i]),
        variableTypeMap, RawCall, 2)

\* C8: when the contract of a call has no function of the callee's name and
\* its ancestors, searched in declaration order, all return, the call resolves
\* to what the last ancestor with a result yields (an identifier named after
\* that ancestor when it defines the callee itself), whatever the imports
\* would yield.
C8_AncestorPrecedence ==
    [][ ( /\ AtCall
          /\ ~HasMethod(CallContract, Callee(RawCall))
          /\ \A i \in DOMAIN CallContract.extendsContracts :
                AncestorResult(i).threw = "none"
          /\ \E i \in DOMAIN CallContract.extendsContracts :
                AncestorResult(i).value # NoString )
        => LET last == CHOOSE i \in DOMAIN CallContract.extendsContracts :
                          /\ AncestorResult(i).value # NoString
                          /\ \A j \in DOMAIN CallContract.extendsContracts :
                                j > i => AncestorResult(j).value = NoString
               base == CallUniverse[FindContract(CallUniverse,
                                       CallContract.extendsContracts[last])]
           IN /\ Rewrote
              /\ NewName = AncestorResult(last).value
              /\ HasMethod(base, Callee(RawCall)) => NewName[1] = base.contractName ]_vars

\* a contract with bases A then B, both defining f, and no f of its own, had a
\* call to f resolved to B:f
C8_Witness ==
    /\ Linked
    /\ \E u \in DOMAIN contractsArray :
         \E c \in DOMAIN contractsArray[u].contract :
           LET contracts == contractsArray[u].contract
               info == contracts[c]
           IN /\ Len(info.extendsContracts) = 2
              /\ info.extendsContracts[1] # info.extendsContracts[2]
              /\ ~HasMethod(info, "f")
              /\ \A i \in 1..2 :
                    /\ FindContract(contracts, info.extendsContracts[i]) # 0
                    /\ HasMethod(contracts[FindContract(contracts,
                                              info.extendsContracts[i])], "f")
              /\ \E m \in DOMAIN info.methodCalls :
                   \E k \in DOMAIN info.methodCalls[m].callMethods :
                      info.methodCalls[m].callMethods[k].name
                         = <<info.extendsContracts[2], "f">>

\* C9: when the contract in which a call is resolved has a function of the
\* callee's name, the call resolves, without an exception, to an identifier
\* that starts with that contract's own name and the callee's name.
C9_LocalShadowing ==
    [][ (AtCall /\ HasMethod(CallContract, Callee(RawCall)))
        => ( /\ Rewrote
             /\ Len(NewName) >= 2
             /\ NewName[1] = CallContract.contractName
             /\ NewName[2] = Callee(RawCall) ) ]_vars

\* a contract that defines f and extends a contract that defines f too had
\* its call to f resolved to its own f
C9_Witness ==
    /\ Linked
    /\ \E u \in DOMAIN contractsArray :
         \E c \in DOMAIN contractsArray[u].contract :
           LET contracts == contractsArray[u].contract
               info == contracts[c]
           IN /\ HasMethod(info, "f")
              /\ \E b \in DOMAIN info.extendsContracts :
                    /\ FindContract(contracts, info.extendsContracts[b]) # 0
                    /\ HasMethod(contracts[FindContract(contracts,
                                              info.extendsContracts[b])], "f")
              /\ \E m \in DOMAIN info.methodCalls :
                   \E k \in DOMAIN info.methodCalls[m].callMethods :
                      info.methodCalls[m].callMethods[k].name
                         = <<info.contractName, "f">>

====
